---- MODULE Spec2Model ----
(***************************************************************************)
(* The Olist ETL pipeline: src/pipeline_olist.py (run_pipeline) and its    *)
(* Prefect twin src/prefect_pipeline.py (olist_etl_flow).                  *)
(*                                                                         *)
(* Four CSV files are read into data frames, cleaned, left-joined into one *)
(* wide relation, and loaded into MySQL as a row-level master table plus   *)
(* four grouped summary tables.  A data frame is a sequence of records, a  *)
(* table is a sequence of committed rows, money is counted in cents and a  *)
(* timestamp in hours.                                                     *)
(***************************************************************************)
EXTENDS Integers, Sequences, FiniteSets, TLC

VARIABLES
    impl,              \* "olist" (pipeline_olist.py) or "prefect" (prefect_pipeline.py)
    nan_binding,       \* what the installed connector does with a NaN parameter
    files,             \* the four CSV files under data/, as the file loader left them
    raw,               \* the four data frames extract_data returned
    customers,         \* cleaned Customer frame (customers_clean)
    orders,            \* cleaned Order frame (orders_clean)
    order_items,       \* cleaned OrderItem frame (local to the transform)
    payments,          \* cleaned Payment frame (local to the transform)
    merged_df,         \* the merged relation
    sales_summary,     \* the data frame of create_sales_summary
    delivery_summary,  \* the data frame of create_delivery_summary
    product_summary,   \* the data frame of create_product_summary
    state_summary,     \* the data frame of create_state_summary
    pc,                \* the statement the run is at
    stage,             \* the table being loaded
    i,                 \* index of the next row of the current insert loop
    total_rows,        \* load_master_table: rows inserted
    errors,            \* load_master_table: rows whose insert raised
    logged,            \* load_master_table: row errors logged verbatim
    db,                \* MySQL: per table, whether it exists and its committed rows
    uncommitted,       \* rows inserted on the open connection and not yet committed
    conn,              \* "none", "open" or "closed": the connection of the run / task
    sqlLog,            \* per table, the statements executed on it during this run
    log,               \* the reports of the current run: logger lines and return value
    plan,              \* the order the current run loads the tables in
    parked,            \* Prefect: per table, where its task was left while another ran
    run,               \* number of the current run; it is also the run's clock
    attempts,          \* Prefect: failed attempts of extract_task so far
    faults,            \* database failures injected so far
    absorbed,          \* injected failures the current run caught and went on from
    failedAt,          \* the stage whose failure ended the run ("" while none)
    dbBefore,          \* the database as it was when the current run started
    completed,         \* business contents of the tables at the end of each successful run
    deploy             \* deploy.py: the step main is at, the steps run, the exit status

vars == <<impl, nan_binding, files, raw, customers, orders, order_items, payments,
          merged_df, sales_summary,
          delivery_summary, product_summary, state_summary, pc, stage, i,
          total_rows, errors, logged, db, uncommitted, conn, sqlLog, log, plan,
          parked, run, attempts, faults, absorbed, failedAt, dbBefore, completed, deploy>>

(***************************************************************************)
(* Bounds of the model.                                                    *)
(***************************************************************************)
MaxRows == 3        \* rows of the four enumerated files together
MaxRuns == 2        \* runs of the pipeline in one behaviour
MaxFaults == 1      \* database failures injected in one behaviour

(***************************************************************************)
(* Missing values.  pandas marks a missing string or number with NaN and a *)
(* missing timestamp with NaT; read_csv leaves an unparseable timestamp as *)
(* the text it found.                                                      *)
(***************************************************************************)
NULL == "NaN"
NaN == -1
NaT == -1
BadTs == -2

\* pd.isna on a text column and on a numeric column.
isna(v) == v = NULL
isnan(v) == v = NaN

\* The order pandas sorts the group keys in: strings by code point, a
\* missing key last.
SortOrder == <<"RJ", "SP", "c1", "c2", "campinas", "niteroi", "p1", "p2", NULL>>

Rank(s) == CHOOSE k \in 1..Len(SortOrder) : SortOrder[k] = s

SeqsUpTo(S, n) == UNION {[1..k -> S] : k \in 0..n}

Range(s) == {s[k] : k \in 1..Len(s)}

(***************************************************************************)
(* The input files.                                                        *)
(***************************************************************************)
CityOf(st) == IF st = "SP" THEN "campinas" ELSE IF st = "RJ" THEN "niteroi" ELSE NULL

Cust(id, st) ==
    [customer_id |-> id, customer_city |-> CityOf(st), customer_state |-> st,
     customer_zip_code_prefix |-> "01310"]

Ord(oid, cid, purchase, delivered) ==
    [order_id |-> oid, customer_id |-> cid, order_status |-> "delivered",
     order_purchase_timestamp |-> purchase,
     order_delivered_customer_date |-> delivered]

Item(oid, pid, price) ==
    [order_id |-> oid, product_id |-> pid, price |-> price, freight_value |-> 150]

Pay(oid, value) ==
    [order_id |-> oid, payment_type |-> "credit_card", payment_value |-> value]

CustomerRows == {Cust("c1", "SP"), Cust("c2", "RJ"), Cust(NULL, "SP")}

OrderRows ==
    {Ord("o1", "c1", 0, 50), Ord("o2", "c2", 0, NaT), Ord("o2", "c1", BadTs, 50),
     Ord(NULL, "c1", 0, 50), Ord("o1", NULL, 0, 50)}

ItemRows ==
    {Item("o1", "p1", 1000), Item("o1", "p2", 2000), Item("o2", "p1", 1000),
     Item(NULL, "p1", 1000)}

PaymentRows == {Pay("o1", 3300), Pay("o2", 500), Pay(NULL, 3300)}

FileSet(c, o, it, p) ==
    [customers |-> c, orders |-> o, order_items |-> it, payments |-> p]

\* Every choice of four files of at most n rows together.
EnumeratedFiles(n) ==
    UNION {UNION {UNION {{FileSet(c, o, it, p) :
                             p \in SeqsUpTo(PaymentRows, n - Len(c) - Len(o) - Len(it))} :
                         it \in SeqsUpTo(ItemRows, n - Len(c) - Len(o))} :
                  o \in SeqsUpTo(OrderRows, n - Len(c))} :
           c \in SeqsUpTo(CustomerRows, n)}

\* Section 8 of the design notes: 2 customers (SP, RJ); the SP customer places
\* 1 order with 2 items (10.00 and 20.00) and 1 credit-card payment of 33.00.
ScenarioState ==
    FileSet(<<Cust("c1", "SP"), Cust("c2", "RJ")>>,
            <<Ord("o1", "c1", 0, 50)>>,
            <<Item("o1", "p1", 1000), Item("o1", "p2", 2000)>>,
            <<Pay("o1", 3300)>>)

\* Section 8 of the design notes: a customer with 1 order having 2 items and
\* 3 payments.
ScenarioFanOut ==
    FileSet(<<Cust("c1", "SP")>>,
            <<Ord("o1", "c1", 0, 50)>>,
            <<Item("o1", "p1", 1000), Item("o1", "p2", 2000)>>,
            <<Pay("o1", 3300), Pay("o1", 3300), Pay("o1", 3300)>>)

\* Beside a complete order: an order of a customer the customers file does
\* not hold, an order whose purchase timestamp is no timestamp, and rows
\* without their identifier.
ScenarioUnmatched ==
    FileSet(<<Cust("c1", "SP"), Cust(NULL, "SP")>>,
            <<Ord("o1", "c1", 0, 50), Ord("o2", "c2", 0, NaT),
              Ord("o3", "c1", BadTs, 50), Ord(NULL, "c1", 0, 50)>>,
            <<Item("o1", "p1", 1000), Item(NULL, "p1", 1000)>>,
            <<Pay("o1", 3300), Pay("o2", 500), Pay(NULL, 3300)>>)

\* An undelivered order with no item and no payment, of the only customer of
\* its state.
ScenarioUnpaid ==
    FileSet(<<Cust("c1", "SP"), Cust("c2", "RJ")>>,
            <<Ord("o1", "c1", 0, 50), Ord("o2", "c2", 0, NaT)>>,
            <<Item("o1", "p1", 1000)>>,
            <<Pay("o1", 3300)>>)

\* An order whose purchase timestamp is no timestamp, with 2 items and 3
\* payments: 6 merged rows, none of which MySQL takes; and an order it takes.
ScenarioRowErrors ==
    FileSet(<<Cust("c1", "SP")>>,
            <<Ord("o1", "c1", BadTs, 50), Ord("o2", "c1", 0, 50)>>,
            <<Item("o1", "p1", 1000), Item("o1", "p2", 2000)>>,
            <<Pay("o1", 3300), Pay("o1", 3300), Pay("o1", 3300)>>)

\* Two orders of one state, delivered after 2 days and after 5.
ScenarioDelays ==
    FileSet(<<Cust("c1", "SP")>>,
            <<Ord("o1", "c1", 0, 50), Ord("o2", "c1", 0, 120)>>,
            <<>>,
            <<>>)

Scenarios ==
    {ScenarioState, ScenarioFanOut, ScenarioUnmatched, ScenarioUnpaid,
     ScenarioRowErrors, ScenarioDelays}

DataFlowFiles == EnumeratedFiles(MaxRows) \cup Scenarios

(***************************************************************************)
(* pandas: DataFrame.dropna(subset=...) and DataFrame.merge(how="left").   *)
(***************************************************************************)
dropna(df, subset) ==
    SelectSeq(df, LAMBDA r : \A c \in subset : ~isna(r[c]))

\* The order without customer given the first state and its city.
NoCustomer_Defaulted ==
    [customer_city |-> "campinas", customer_state |-> "SP",
     customer_zip_code_prefix |-> NULL]

NoCustomer ==
    [customer_city |-> NULL, customer_state |-> NULL, customer_zip_code_prefix |-> NULL]

NoItem == [product_id |-> NULL, price |-> NaN, freight_value |-> NaN]

NoPayment == [payment_type |-> NULL, payment_value |-> NaN]

\* The columns `right` adds to a left row: every column but the join key.
Added(r, key) == [c \in (DOMAIN r) \ {key} |-> r[c]]

Matches(l, right, key) == SelectSeq(right, LAMBDA r : r[key] = l[key])

\* A join that keeps the first matching right row only.
Widen_First(l, ms, key) == <<l @@ Added(Head(ms), key)>>

RECURSIVE Widen(_, _, _)
Widen(l, ms, key) ==
    IF ms = <<>> THEN <<>>
    ELSE <<l @@ Added(Head(ms), key)>> \o Widen(l, Tail(ms), key)

\* how="inner": a left row without a match is dropped.
RECURSIVE merge_inner(_, _, _, _)
merge_inner(left, right, key, missing) ==
    IF left = <<>> THEN <<>>
    ELSE Widen(Head(left), Matches(Head(left), right, key), key)
         \o merge_inner(Tail(left), right, key, missing)

\* left.merge(right, on=key, how="left"): the left rows in their order, each
\* once per matching right row, or once with the right columns missing.
RECURSIVE merge(_, _, _, _)
merge(left, right, key, missing) ==
    IF left = <<>> THEN <<>>
    ELSE LET l == Head(left)
             ms == Matches(l, right, key)
         IN  (IF ms = <<>> THEN <<l @@ missing>> ELSE Widen(l, ms, key))
             \o merge(Tail(left), right, key, missing)

CleanCustomers(c) == dropna(c, {"customer_id"})
\* dropna(subset=['order_id']) for the orders too.
CleanOrders_OrderIdOnly(o) == dropna(o, {"order_id"})
CleanOrders(o) == dropna(o, {"order_id", "customer_id"})
CleanItems(it) == dropna(it, {"order_id"})
CleanPayments(p) == dropna(p, {"order_id"})

MergeAll(o, c, it, p) ==
    merge(merge(merge(o, c, "customer_id", NoCustomer), it, "order_id", NoItem),
          p, "order_id", NoPayment)

(***************************************************************************)
(* pandas: groupby(...).agg(...).  A float is kept exactly, as the         *)
(* fraction s/n; n = 0 is NaN.                                             *)
(***************************************************************************)
Float(s, n) == [s |-> s, n |-> n]
NaNFloat == Float(0, 0)
IsNaNFloat(q) == q.n = 0

RECURSIVE SumSeq(_)
SumSeq(xs) == IF xs = <<>> THEN 0 ELSE Head(xs) + SumSeq(Tail(xs))

RECURSIVE Column(_, _)
Column(df, col) ==
    IF df = <<>> THEN <<>> ELSE <<Head(df)[col]>> \o Column(Tail(df), col)

\* The non-missing values of a numeric column.
Values(g, col) == SelectSeq(Column(g, col), LAMBDA v : ~isnan(v))

\* 'sum' skips NaN and is 0 over no value; 'mean' skips NaN and is NaN over
\* no value; 'count' counts the non-missing cells; 'nunique' the distinct ones.
AggSum(g, col) == SumSeq(Values(g, col))
AggMean(g, col) == Float(SumSeq(Values(g, col)), Len(Values(g, col)))
AggCount(g, col) == Len(SelectSeq(Column(g, col), LAMBDA v : ~isna(v)))
AggNunique(g, col) == Cardinality(Range(Column(g, col)) \ {NULL})

\* groupby(dropna=False): the rows with a missing key form a group too.
GroupKeys_KeepNull(df, by) == {[c \in Range(by) |-> r[c]] : r \in Range(df)}

\* groupby drops every row with a missing key (dropna=True is the default)
\* and sorts the groups by key (sort=True is the default).
GroupKeys(df, by) ==
    {[c \in Range(by) |-> r[c]] : r \in Range(dropna(df, Range(by)))}

RECURSIVE KeyLess(_, _, _)
KeyLess(a, b, by) ==
    /\ by # <<>>
    /\ \/ Rank(a[Head(by)]) < Rank(b[Head(by)])
       \/ a[Head(by)] = b[Head(by)] /\ KeyLess(a, b, Tail(by))

RECURSIVE SortKeys(_, _)
SortKeys(ks, by) ==
    IF ks = {} THEN <<>>
    ELSE LET m == CHOOSE k \in ks : \A o \in ks \ {k} : KeyLess(k, o, by)
         IN  <<m>> \o SortKeys(ks \ {m}, by)

Group(df, by, k) == SelectSeq(df, LAMBDA r : \A c \in Range(by) : r[c] = k[c])

\* The groups in the order of their keys, each with its key and its rows.
groupby(df, by) ==
    LET ks == SortKeys(GroupKeys(df, by), by)
    IN  [n \in 1..Len(ks) |-> [key |-> ks[n], rows |-> Group(df, by, ks[n])]]

(***************************************************************************)
(* The four aggregation recipes.                                           *)
(***************************************************************************)
SalesBy == <<"customer_id", "customer_state", "customer_city">>

\* total_orders as ('order_id', 'count'): the rows, not the orders.
SalesAgg_RowCount(k, g) ==
    [customer_id |-> k.customer_id, customer_state |-> k.customer_state,
     customer_city |-> k.customer_city,
     total_spent |-> AggSum(g, "payment_value"),
     total_orders |-> AggCount(g, "order_id"),
     total_items |-> AggCount(g, "order_id"),
     avg_order_value |-> AggMean(g, "payment_value"),
     avg_price |-> AggMean(g, "price"),
     avg_freight |-> AggMean(g, "freight_value")]

SalesAgg(k, g) ==
    [customer_id |-> k.customer_id, customer_state |-> k.customer_state,
     customer_city |-> k.customer_city,
     total_spent |-> AggSum(g, "payment_value"),
     total_orders |-> AggNunique(g, "order_id"),
     total_items |-> AggCount(g, "order_id"),
     avg_order_value |-> AggMean(g, "payment_value"),
     avg_price |-> AggMean(g, "price"),
     avg_freight |-> AggMean(g, "freight_value")]

\* DataFrame.fillna(0) on the float columns of the sales summary.
fillna0(q) == IF IsNaNFloat(q) THEN Float(0, 1) ELSE q

SalesFillna(r) ==
    [r EXCEPT !.avg_order_value = fillna0(@), !.avg_price = fillna0(@),
              !.avg_freight = fillna0(@)]

\* pipeline_olist replaces NaN by 0 after grouping; prefect_pipeline does not.
SalesSummaryOf(m, im) ==
    LET gs == groupby(m, SalesBy)
        agg == [n \in 1..Len(gs) |-> SalesAgg(gs[n].key, gs[n].rows)]
    IN  IF im = "olist" THEN [n \in 1..Len(agg) |-> SalesFillna(agg[n])] ELSE agg

ProductAgg(k, g) ==
    [product_id |-> k.product_id,
     total_orders |-> AggNunique(g, "order_id"),
     total_items_sold |-> AggCount(g, "order_id"),
     total_revenue |-> AggSum(g, "price"),
     avg_price |-> AggMean(g, "price"),
     total_freight |-> AggSum(g, "freight_value"),
     avg_freight |-> AggMean(g, "freight_value")]

\* groupby('product_id', dropna=False): the rows without a product are a
\* group of their own.
ProductSummaryOf_NullBucket(m) ==
    LET ks == SortKeys(GroupKeys_KeepNull(m, <<"product_id">>), <<"product_id">>)
    IN  [n \in 1..Len(ks) |-> ProductAgg(ks[n], Group(m, <<"product_id">>, ks[n]))]

\* groupby('product_id') of the merged rows: a row without a product is in
\* no group.
ProductSummaryOf(m) ==
    LET gs == groupby(m, <<"product_id">>)
    IN  [n \in 1..Len(gs) |-> ProductAgg(gs[n].key, gs[n].rows)]

\* total_orders as ('order_id', 'count'): the rows, not the orders.
StateAgg_RowCount(k, g) ==
    [customer_state |-> k.customer_state,
     total_customers |-> AggNunique(g, "customer_id"),
     total_orders |-> AggCount(g, "order_id"),
     total_revenue |-> AggSum(g, "payment_value"),
     avg_order_value |-> AggMean(g, "payment_value"),
     total_items |-> AggCount(g, "order_id")]

StateAgg(k, g) ==
    [customer_state |-> k.customer_state,
     total_customers |-> AggNunique(g, "customer_id"),
     total_orders |-> AggNunique(g, "order_id"),
     total_revenue |-> AggSum(g, "payment_value"),
     avg_order_value |-> AggMean(g, "payment_value"),
     total_items |-> AggCount(g, "order_id")]

StateSummaryOf(m) ==
    LET gs == groupby(m, <<"customer_state">>)
    IN  [n \in 1..Len(gs) |-> StateAgg(gs[n].key, gs[n].rows)]

(***************************************************************************)
(* Delivery latency.                                                       *)
(***************************************************************************)
\* pd.to_datetime(errors='coerce'): what does not parse becomes NaT.
to_datetime(v) == IF v >= 0 THEN v ELSE NaT

\* A missing timestamp taken for a delivery on the day of the purchase.
DeliveryDays_ZeroForMissing(o) ==
    IF o.order_delivered_customer_date = NaT \/ o.order_purchase_timestamp = NaT
    THEN <<0>>
    ELSE <<(o.order_delivered_customer_date - o.order_purchase_timestamp) \div 24>>

\* (delivered - purchase).dt.days: whole days, rounded down; missing when
\* either timestamp is.  A missing cell is <<>>, a value d is <<d>>.
DeliveryDays(o) ==
    IF o.order_delivered_customer_date = NaT \/ o.order_purchase_timestamp = NaT
    THEN <<>>
    ELSE <<(o.order_delivered_customer_date - o.order_purchase_timestamp) \div 24>>

WithDeliveryDays(o) ==
    LET p == [o EXCEPT !.order_delivered_customer_date = to_datetime(@),
                       !.order_purchase_timestamp = to_datetime(@)]
    IN  p @@ [delivery_days |-> DeliveryDays(p)]

RECURSIVE Flatten(_)
Flatten(cells) == IF cells = <<>> THEN <<>> ELSE Head(cells) \o Flatten(Tail(cells))

\* The non-missing delivery_days of a group.
Days(g) == Flatten(Column(g, "delivery_days"))

RECURSIVE Sorted(_)
Sorted(xs) ==
    IF xs = <<>> THEN <<>>
    ELSE LET k == CHOOSE a \in 1..Len(xs) : \A b \in 1..Len(xs) : xs[a] <= xs[b]
         IN  <<xs[k]>> \o Sorted(SubSeq(xs, 1, k - 1) \o SubSeq(xs, k + 1, Len(xs)))

Mean(xs) == Float(SumSeq(xs), Len(xs))

Median(xs) ==
    LET s == Sorted(xs)
        n == Len(xs)
    IN  IF n = 0 THEN NaNFloat
        ELSE IF n % 2 = 1 THEN Float(s[(n + 1) \div 2], 1)
        ELSE Float(s[n \div 2] + s[n \div 2 + 1], 2)

Min(xs) == IF xs = <<>> THEN NaNFloat ELSE Float(Sorted(xs)[1], 1)
Max(xs) == IF xs = <<>> THEN NaNFloat ELSE Float(Sorted(xs)[Len(xs)], 1)

RECURSIVE SumSquares(_)
SumSquares(xs) == IF xs = <<>> THEN 0 ELSE Head(xs) * Head(xs) + SumSquares(Tail(xs))

\* The standard deviation with divisor n, kept as the variance
\* (n*sum(x^2) - sum(x)^2) / (n*n).
Std_Population(xs) ==
    LET n == Len(xs)
    IN  IF n < 1 THEN NaNFloat
        ELSE Float(n * SumSquares(xs) - SumSeq(xs) * SumSeq(xs), n * n)

\* 'std' is the sample standard deviation (ddof=1), NaN over fewer than two
\* values.  It is kept as its square, the variance
\* (n*sum(x^2) - sum(x)^2) / (n*(n-1)).
Std(xs) ==
    LET n == Len(xs)
    IN  IF n < 2 THEN NaNFloat
        ELSE Float(n * SumSquares(xs) - SumSeq(xs) * SumSeq(xs), n * (n - 1))

DeliveryAgg(k, g) ==
    [customer_state |-> k.customer_state,
     total_orders |-> AggCount(g, "order_id"),
     delivered_orders |-> Len(Days(g)),
     avg_delivery_days |-> Mean(Days(g)),
     median_delivery_days |-> Median(Days(g)),
     fastest_delivery |-> Min(Days(g)),
     slowest_delivery |-> Max(Days(g)),
     std_delivery_days |-> Std(Days(g))]

\* The quotient taken the other way round.
DeliveryRate_Inverted(r) ==
    r @@ [delivery_rate |-> Float(r.total_orders * 100, r.delivered_orders)]

\* delivery_rate = delivered_orders / total_orders * 100.
DeliveryRate(r) ==
    r @@ [delivery_rate |-> Float(r.delivered_orders * 100, r.total_orders)]

\* The delivery summary grouped from the merged relation: an order once for
\* each of its item and payment combinations.
DeliverySummaryOf_Merged(o, c) ==
    LET gs == groupby(MergeAll(o, c, order_items, payments), <<"customer_state">>)
    IN  [n \in 1..Len(gs) |-> DeliveryRate(DeliveryAgg(gs[n].key, gs[n].rows))]

\* create_delivery_summary: the cleaned orders joined with the cleaned
\* customers and grouped by state.
DeliverySummaryOf(o, c) ==
    LET gs == groupby(merge(o, c, "customer_id", NoCustomer), <<"customer_state">>)
    IN  [n \in 1..Len(gs) |-> DeliveryRate(DeliveryAgg(gs[n].key, gs[n].rows))]

(***************************************************************************)
(* The values bound to the INSERT statements.  SQL NULL is None in a text  *)
(* column and <<>> in a numeric or DATETIME column, whose values are <<v>>.*)
(* DECIMAL(10,2) and DECIMAL(5,2) round to hundredths, half away from 0.   *)
(***************************************************************************)
None == "None"

RoundDiv(a, b) ==
    IF a >= 0 THEN (2 * a + b) \div (2 * b) ELSE -((2 * (-a) + b) \div (2 * b))

\* A float of money (cents) and a float of days, as DECIMAL(_,2) hundredths.
DecimalOfCents(q) == RoundDiv(q.s, q.n)
DecimalOfUnits(q) == RoundDiv(100 * q.s, q.n)

\* The square root of the fraction q in hundredths, rounded to nearest: the
\* largest r from lo to hi with (r - 1/2)^2 <= 10000 * q, found by bisection.
RECURSIVE RootFrom(_, _, _)
RootFrom(q, lo, hi) ==
    IF lo >= hi THEN lo
    ELSE LET mid == (lo + hi + 1) \div 2
         IN  IF (2 * mid - 1) * (2 * mid - 1) * q.n <= 40000 * q.s
             THEN RootFrom(q, mid, hi)
             ELSE RootFrom(q, lo, mid - 1)

DecimalOfStd(q) == RootFrom(q, 0, 100 * (q.s \div q.n + 1))

\* safe_get gives None for a missing cell; safe_float turns a missing number
\* into the default; safe_datetime gives None for a missing timestamp and the
\* text str(val) of any other.
safe_get(v) == IF isna(v) THEN None ELSE v
safe_float(v, default) == IF isnan(v) THEN default ELSE v
safe_datetime(v) == IF v = NaT THEN <<>> ELSE <<v>>

MasterRow(r, now) ==
    [order_id |-> safe_get(r.order_id),
     customer_id |-> safe_get(r.customer_id),
     customer_city |-> safe_get(r.customer_city),
     customer_state |-> safe_get(r.customer_state),
     customer_zip_code_prefix |-> safe_get(r.customer_zip_code_prefix),
     order_status |-> safe_get(r.order_status),
     order_purchase_timestamp |-> safe_datetime(r.order_purchase_timestamp),
     order_delivered_customer_date |-> safe_datetime(r.order_delivered_customer_date),
     price |-> safe_float(r.price, 0),
     freight_value |-> safe_float(r.freight_value, 0),
     payment_type |-> safe_get(r.payment_type),
     payment_value |-> safe_float(r.payment_value, 0),
     product_id |-> safe_get(r.product_id),
     created_at |-> now]

\* MySQL rejects a DATETIME value that is no timestamp.
MasterRejects(r) ==
    \/ r.order_purchase_timestamp = BadTs
    \/ r.order_delivered_customer_date = BadTs

\* float(x) of a NaN is NaN.  mysql-connector-python is installed unpinned:
\* a connector that writes the parameter as the text nan has the statement
\* fail (unknown column 'nan'), one that maps it to None stores NULL.  The
\* guarded cells (x if pd.notna(x) else ...) never hold a NaN.
NanBindings == {"error", "null"}

OrZero(q) == IF IsNaNFloat(q) THEN <<0>> ELSE <<DecimalOfCents(q)>>
\* The cell of a float whose DECIMAL value is d: NULL for a NaN.
OrNone(q, d) == IF IsNaNFloat(q) THEN <<>> ELSE <<d>>

SalesRejects(r, im, nb) ==
    /\ im = "prefect"
    /\ nb = "error"
    /\ IsNaNFloat(r.avg_order_value) \/ IsNaNFloat(r.avg_price) \/ IsNaNFloat(r.avg_freight)

SalesCell(q, im) == IF im = "olist" THEN OrZero(q) ELSE OrNone(q, DecimalOfCents(q))

SalesRow(r, im, now) ==
    [customer_id |-> safe_get(r.customer_id),
     customer_state |-> safe_get(r.customer_state),
     customer_city |-> safe_get(r.customer_city),
     total_spent |-> r.total_spent,
     total_orders |-> r.total_orders,
     total_items |-> r.total_items,
     avg_order_value |-> SalesCell(r.avg_order_value, im),
     avg_price |-> SalesCell(r.avg_price, im),
     avg_freight |-> SalesCell(r.avg_freight, im),
     updated_at |-> now]

DeliveryRejects(r, nb) == nb = "error" /\ IsNaNFloat(r.delivery_rate)

DeliveryRow(r, now) ==
    [customer_state |-> r.customer_state,
     total_orders |-> r.total_orders,
     delivered_orders |-> r.delivered_orders,
     delivery_rate |-> OrNone(r.delivery_rate, DecimalOfUnits(r.delivery_rate)),
     avg_delivery_days |-> OrNone(r.avg_delivery_days, DecimalOfUnits(r.avg_delivery_days)),
     median_delivery_days |-> OrNone(r.median_delivery_days, DecimalOfUnits(r.median_delivery_days)),
     fastest_delivery |-> OrNone(r.fastest_delivery, r.fastest_delivery.s),
     slowest_delivery |-> OrNone(r.slowest_delivery, r.slowest_delivery.s),
     std_delivery_days |-> OrNone(r.std_delivery_days, DecimalOfStd(r.std_delivery_days)),
     updated_at |-> now]

ProductRejects(r, nb) ==
    nb = "error" /\ (IsNaNFloat(r.avg_price) \/ IsNaNFloat(r.avg_freight))

ProductRow(r, now) ==
    [product_id |-> r.product_id,
     total_orders |-> r.total_orders,
     total_items_sold |-> r.total_items_sold,
     total_revenue |-> r.total_revenue,
     avg_price |-> OrNone(r.avg_price, DecimalOfCents(r.avg_price)),
     total_freight |-> r.total_freight,
     avg_freight |-> OrNone(r.avg_freight, DecimalOfCents(r.avg_freight)),
     updated_at |-> now]

StateRejects(r, nb) == nb = "error" /\ IsNaNFloat(r.avg_order_value)

StateRow(r, now) ==
    [customer_state |-> r.customer_state,
     total_customers |-> r.total_customers,
     total_orders |-> r.total_orders,
     total_revenue |-> r.total_revenue,
     avg_order_value |-> OrNone(r.avg_order_value, DecimalOfCents(r.avg_order_value)),
     total_items |-> r.total_items,
     updated_at |-> now]

(***************************************************************************)
(* The database.                                                           *)
(***************************************************************************)
Master == "olist_master"
Sales == "sales_summary"
Delivery == "delivery_summary"
Product == "product_summary"
State == "state_summary"

\* The product summary rebuilt before the sales summary.
StageOrder_ProductFirst == <<Master, Product, Sales, Delivery, State>>

\* The order run_pipeline and olist_etl_flow load the tables in.
StageOrder == <<Master, Sales, Delivery, Product, State>>

Tables == Range(StageOrder)

\* The orders the four aggregators can be called in after load_master_table.
Plans ==
    {p \in [1..Len(StageOrder) -> Tables] :
        p[1] = Master /\ \A t \in Tables : \E k \in 1..Len(p) : p[k] = t}

Absent == [exists |-> FALSE, rows |-> <<>>]

\* A DROP that leaves the table and its rows.
DropTable_Keep(d, t) == d

\* DROP TABLE IF EXISTS t; CREATE TABLE t (...).  Data definition statements
\* commit on their own.
DropTable(d, t) == [d EXCEPT ![t] = Absent]
CreateTable(d, t) == [d EXCEPT ![t] = [exists |-> TRUE, rows |-> <<>>]]

\* connection.commit(): the rows inserted since the last commit become durable.
CommitRows(d, t, rs) == [d EXCEPT ![t].rows = @ \o rs]

\* The columns of a row other than its timestamp (created_at / updated_at).
Business(r) == [c \in (DOMAIN r) \ {"created_at", "updated_at"} |-> r[c]]

BusinessContents(d) ==
    [t \in Tables |-> [exists |-> d[t].exists, rows |-> [n \in 1..Len(d[t].rows) |-> Business(d[t].rows[n])]]]

\* The timestamp column of a row.
Stamp(r) == IF "created_at" \in DOMAIN r THEN r.created_at ELSE r.updated_at

\* The data frame the insert loop of a stage walks, and its statement.
Frame(t) ==
    CASE t = Master -> merged_df
      [] t = Sales -> sales_summary
      [] t = Delivery -> delivery_summary
      [] t = Product -> product_summary
      [] t = State -> state_summary

Rejects(t, r) ==
    CASE t = Master -> MasterRejects(r)
      [] t = Sales -> SalesRejects(r, impl, nan_binding)
      [] t = Delivery -> DeliveryRejects(r, nan_binding)
      [] t = Product -> ProductRejects(r, nan_binding)
      [] t = State -> StateRejects(r, nan_binding)

SqlRow(t, r, now) ==
    CASE t = Master -> MasterRow(r, now)
      [] t = Sales -> SalesRow(r, impl, now)
      [] t = Delivery -> DeliveryRow(r, now)
      [] t = Product -> ProductRow(r, now)
      [] t = State -> StateRow(r, now)

\* batch_size of load_master_table, scaled from 1000 rows to 2.
batch_size == 2

\* retries of extract_task.
retries == 3

(***************************************************************************)
(* The run.                                                                *)
(***************************************************************************)
NoFrames == FileSet(<<>>, <<>>, <<>>, <<>>)

EmptyDb == [t \in Tables |-> Absent]

\* No statement executed yet.
NoStatements == [t \in Tables |-> <<>>]

\* No task is waiting.
NoneParked == [t \in Tables |-> <<>>]

\* deploy.py is not what started the run.
NotDeployed ==
    [at |-> "none", ran |-> <<>>, exit |-> -1, failed |-> "", missing |-> FALSE,
     timed_out |-> FALSE, prefect |-> ""]

\* The process of a run as it starts, on one of the files fs.
InitRun(fs) ==
    /\ impl \in {"olist", "prefect"}
    /\ nan_binding \in NanBindings
    /\ files \in fs
    /\ raw = NoFrames
    /\ customers = <<>>
    /\ orders = <<>>
    /\ order_items = <<>>
    /\ payments = <<>>
    /\ merged_df = <<>>
    /\ sales_summary = <<>>
    /\ delivery_summary = <<>>
    /\ product_summary = <<>>
    /\ state_summary = <<>>
    /\ stage = "extract"
    /\ i = 1
    /\ total_rows = 0
    /\ errors = 0
    /\ logged = 0
    /\ db = EmptyDb
    /\ uncommitted = <<>>
    /\ conn = "none"
    /\ sqlLog = NoStatements
    /\ log = <<>>
    /\ plan = StageOrder
    /\ parked = NoneParked
    /\ run = 1
    /\ attempts = 0
    /\ faults = 0
    /\ absorbed = 0
    /\ failedAt = ""
    /\ dbBefore = EmptyDb
    /\ completed = <<>>

InitWith(fs) ==
    /\ InitRun(fs)
    /\ pc = "extract"
    /\ deploy = NotDeployed

Init == InitWith(Scenarios)

InitDataFlow == InitWith(DataFlowFiles)

frames == <<raw, customers, orders, order_items, payments, merged_df, sales_summary,
            delivery_summary, product_summary, state_summary>>

counters == <<i, total_rows, errors, logged>>

env == <<impl, nan_binding, files, run, dbBefore, plan, parked, deploy>>

\* What a run reports.  A loader ends with the line "... loaded / created:
\* n rows", load_master_table adding its error count; a successful run with
\* the line of its duration and, in olist_etl_flow, the row counts the five
\* tasks returned; a failed run with the error and the place it was raised.
LoadedMsg(t, n, e) ==
    [event |-> "loaded", at |-> t, rows |-> <<n>>, errors |-> e, duration |-> FALSE]

FailedMsg(at) ==
    [event |-> "failed", at |-> at, rows |-> <<>>, errors |-> <<>>, duration |-> FALSE]

SuccessMsg ==
    [event |-> "success", at |-> "",
     rows |-> IF impl = "prefect"
              THEN <<total_rows, Len(sales_summary), Len(delivery_summary),
                     Len(product_summary), Len(state_summary)>>
              ELSE <<>>,
     errors |-> <<>>, duration |-> TRUE]

\* The last line of the loader of the current stage.
StageReport ==
    IF stage = Master THEN LoadedMsg(Master, total_rows, <<errors>>)
    ELSE LoadedMsg(stage, Len(Frame(stage)), <<>>)

\* The except clause returning as after a run that went well.
Raise_ReturnsSuccess(at) ==
    /\ pc' = "done"
    /\ failedAt' = at
    /\ uncommitted' = <<>>
    /\ log' = Append(log, SuccessMsg)

\* The exception leaves run_pipeline / olist_etl_flow: the run has failed at
\* stage `at`.  Nothing closes the connection; what it had not committed is
\* rolled back when the server loses it.
Raise(at) ==
    /\ pc' = "failed"
    /\ failedAt' = at
    /\ uncommitted' = <<>>
    /\ log' = Append(log, FailedMsg(at))

\* extract_data / extract_task: the four pd.read_csv calls.
ExtractData ==
    /\ pc = "extract"
    /\ raw' = files
    /\ pc' = "transform"
    /\ UNCHANGED <<customers, orders, order_items, payments, merged_df, sales_summary,
                   delivery_summary, product_summary, state_summary, stage, counters,
                   db, uncommitted,
                   conn, sqlLog, log, attempts, faults, absorbed, failedAt, completed,
                   env>>

\* The connection opened before the files are read.
ExtractFails_AfterConnect ==
    /\ pc = "extract"
    /\ conn' = "open"
    /\ IF impl = "prefect" /\ attempts < retries
       THEN /\ attempts' = attempts + 1
            /\ UNCHANGED <<pc, failedAt, uncommitted, log>>
       ELSE /\ Raise("extract")
            /\ UNCHANGED attempts
    /\ UNCHANGED <<frames, stage, counters, db, sqlLog, faults, absorbed,
                   completed, env>>

\* A pd.read_csv raises (file missing or unreadable).  Prefect runs
\* extract_task again, up to `retries` more times.
ExtractFails ==
    /\ pc = "extract"
    /\ IF impl = "prefect" /\ attempts < retries
       THEN /\ attempts' = attempts + 1
            /\ UNCHANGED <<pc, failedAt, uncommitted, log>>
       ELSE /\ Raise("extract")
            /\ UNCHANGED attempts
    /\ UNCHANGED <<frames, stage, counters, db, conn, sqlLog, faults, absorbed,
                   completed, env>>

\* transform_data / transform_task.
TransformData ==
    /\ pc = "transform"
    /\ customers' = CleanCustomers(raw.customers)
    /\ orders' = CleanOrders(raw.orders)
    /\ order_items' = CleanItems(raw.order_items)
    /\ payments' = CleanPayments(raw.payments)
    /\ merged_df' = MergeAll(orders', customers', order_items', payments')
    /\ stage' = plan[1]
    /\ pc' = "connect"
    /\ UNCHANGED <<raw, sales_summary, delivery_summary, product_summary,
                   state_summary, counters, db, uncommitted, conn, sqlLog, log,
                   attempts, faults, absorbed, failedAt, completed, env>>

\* The master table loaded into as it is, neither dropped nor created.
CreateConnection_NoDdl ==
    /\ pc = "connect"
    /\ conn' = "open"
    /\ pc' = IF stage = Master THEN "insert" ELSE "compute"
    /\ UNCHANGED <<frames, stage, counters, db, uncommitted, sqlLog, log, attempts,
                   faults, absorbed, failedAt, completed, env>>

\* create_connection (run_pipeline, once) / mysql.connector.connect (each task).
CreateConnection ==
    /\ pc = "connect"
    /\ conn' = "open"
    /\ pc' = IF stage = Master THEN "drop" ELSE "compute"
    /\ UNCHANGED <<frames, stage, counters, db, uncommitted, sqlLog, log, attempts,
                   faults, absorbed, failedAt, completed, env>>

ConnectFails ==
    /\ pc = "connect"
    /\ faults < MaxFaults
    /\ faults' = faults + 1
    /\ Raise(IF impl = "olist" THEN "connect" ELSE stage)
    /\ UNCHANGED <<frames, stage, counters, db, conn, sqlLog, attempts, absorbed,
                   completed, env>>

Computed ==
    /\ pc' = "drop"
    /\ UNCHANGED <<raw, customers, order_items, payments, merged_df, stage, counters,
                   db, uncommitted, conn, sqlLog, log, attempts, faults, absorbed,
                   failedAt, completed, env>>

ComputeSalesSummary ==
    /\ pc = "compute" /\ stage = Sales
    /\ sales_summary' = SalesSummaryOf(merged_df, impl)
    /\ Computed
    /\ UNCHANGED <<orders, delivery_summary, product_summary, state_summary>>

\* create_delivery_summary writes the parsed timestamps and delivery_days
\* into the orders frame it was given.
ComputeDeliverySummary ==
    /\ pc = "compute" /\ stage = Delivery
    /\ orders' = [n \in 1..Len(orders) |-> WithDeliveryDays(orders[n])]
    /\ delivery_summary' = DeliverySummaryOf(orders', customers)
    /\ Computed
    /\ UNCHANGED <<sales_summary, product_summary, state_summary>>

\* The product aggregator dropping the rows without a product from the
\* merged relation itself, not from a copy.
ComputeProductSummary_InPlace ==
    /\ pc = "compute" /\ stage = Product
    /\ merged_df' = dropna(merged_df, {"product_id"})
    /\ product_summary' = ProductSummaryOf(merged_df')
    /\ pc' = "drop"
    /\ UNCHANGED <<raw, customers, orders, order_items, payments, sales_summary,
                   delivery_summary, state_summary, stage, counters, db, uncommitted,
                   conn, sqlLog, log, attempts, faults, absorbed, failedAt, completed,
                   env>>

ComputeProductSummary ==
    /\ pc = "compute" /\ stage = Product
    /\ product_summary' = ProductSummaryOf(merged_df)
    /\ Computed
    /\ UNCHANGED <<orders, sales_summary, delivery_summary, state_summary>>

ComputeStateSummary ==
    /\ pc = "compute" /\ stage = State
    /\ state_summary' = StateSummaryOf(merged_df)
    /\ Computed
    /\ UNCHANGED <<orders, sales_summary, delivery_summary, product_summary>>

Executed(op) == sqlLog' = [sqlLog EXCEPT ![stage] = Append(@, op)]

\* Where the run goes when the stage's table is loaded: pipeline_olist goes
\* on to the next aggregator on the same connection and closes it after the
\* last one; each Prefect task closes its own connection.
StageIndex(t) == CHOOSE k \in 1..Len(plan) : plan[k] = t

LastStage == plan[Len(plan)]

AfterStage ==
    IF impl = "olist" /\ stage # LastStage THEN "compute" ELSE "close"

NextStage == IF stage = LastStage THEN LastStage ELSE plan[StageIndex(stage) + 1]

StageAfter(p) == IF p = "compute" THEN NextStage ELSE stage

\* The entry of the insert loop.  load_master_table commits inside its
\* loop, so not at all for no row.
EnterLoop ==
    /\ i' = 1
    /\ IF stage = Master
       THEN /\ total_rows' = 0 /\ errors' = 0 /\ logged' = 0
            /\ pc' = IF merged_df = <<>> THEN AfterStage ELSE "insert"
            /\ stage' = IF merged_df = <<>> THEN StageAfter(AfterStage) ELSE stage
            /\ log' = IF merged_df = <<>> THEN Append(log, LoadedMsg(Master, 0, <<0>>))
                      ELSE log
       ELSE /\ UNCHANGED <<total_rows, errors, logged, stage, log>>
            /\ pc' = IF Frame(stage) = <<>> THEN "commit" ELSE "insert"

\* CREATE TABLE IF NOT EXISTS in place of DROP and CREATE: a table of an
\* earlier run is kept and loaded into.
DropStep_Append ==
    /\ pc = "drop"
    /\ IF db[stage].exists
       THEN /\ EnterLoop
            /\ UNCHANGED <<db, uncommitted, sqlLog>>
       ELSE /\ db' = DropTable(db, stage)
            /\ uncommitted' = <<>>
            /\ Executed("DROP")
            /\ pc' = "create"
            /\ UNCHANGED <<stage, counters, log>>
    /\ UNCHANGED <<frames, conn, attempts, faults, absorbed, failedAt, completed, env>>

\* Only the master table dropped; a summary table of an earlier run is kept
\* and loaded into.
DropStep_SummariesKept ==
    /\ pc = "drop"
    /\ IF stage # Master /\ db[stage].exists
       THEN /\ EnterLoop
            /\ UNCHANGED <<db, uncommitted, sqlLog>>
       ELSE /\ db' = DropTable(db, stage)
            /\ uncommitted' = <<>>
            /\ Executed("DROP")
            /\ pc' = "create"
            /\ UNCHANGED <<stage, counters, log>>
    /\ UNCHANGED <<frames, conn, attempts, faults, absorbed, failedAt, completed, env>>

\* cursor.execute("DROP TABLE IF EXISTS ...")
DropStep ==
    /\ pc = "drop"
    /\ db' = DropTable(CommitRows(db, stage, uncommitted), stage)
    /\ uncommitted' = <<>>
    /\ Executed("DROP")
    /\ pc' = "create"
    /\ UNCHANGED <<frames, stage, counters, conn, log, attempts, faults, absorbed,
                   failedAt, completed, env>>

\* cursor.execute("CREATE TABLE ...").  MySQL raises (error 1050) when the
\* table exists.
CreateStep ==
    /\ pc = "create"
    /\ IF db[stage].exists
       THEN /\ Raise(stage)
            /\ UNCHANGED <<db, sqlLog, stage, counters>>
       ELSE /\ db' = CreateTable(db, stage)
            /\ Executed("CREATE")
            /\ EnterLoop
            /\ UNCHANGED <<uncommitted, failedAt>>
    /\ UNCHANGED <<frames, conn, attempts, faults, absorbed, completed, env>>

\* The row error logged whatever the number of errors before it.
RowError_LogAll ==
    /\ errors' = errors + 1
    /\ logged' = IF impl = "olist" THEN logged + 1 ELSE logged
    /\ UNCHANGED <<total_rows, uncommitted, sqlLog>>

\* The row error of load_master_table: counted, and in pipeline_olist the
\* first 5 are logged.
RowError ==
    /\ errors' = errors + 1
    /\ logged' = IF impl = "olist" /\ errors + 1 <= 5 THEN logged + 1 ELSE logged
    /\ UNCHANGED <<total_rows, uncommitted, sqlLog>>

\* One commit, after the last row.
MasterLoop_CommitAtEnd ==
    /\ i' = i + 1
    /\ pc' = IF i = Len(merged_df) THEN "commit" ELSE "insert"

\* The two loops of load_master_table: the batch is committed after its last
\* row.
MasterLoop ==
    /\ i' = i + 1
    /\ pc' = IF i % batch_size = 0 \/ i = Len(merged_df) THEN "commit" ELSE "insert"

\* The inner loop with each row put before the rows inserted so far.
InsertMaster_Reversed ==
    /\ pc = "insert" /\ stage = Master
    /\ IF MasterRejects(merged_df[i])
       THEN RowError
       ELSE /\ uncommitted' = <<MasterRow(merged_df[i], run)>> \o uncommitted
            /\ total_rows' = total_rows + 1
            /\ Executed("INSERT")
            /\ UNCHANGED <<errors, logged>>
    /\ MasterLoop
    /\ UNCHANGED <<frames, stage, db, conn, log, attempts, faults, absorbed, failedAt,
                   completed, env>>

\* load_master_table: one pass of the inner loop, try/except included.
InsertMaster ==
    /\ pc = "insert" /\ stage = Master
    /\ IF MasterRejects(merged_df[i])
       THEN RowError
       ELSE /\ uncommitted' = Append(uncommitted, MasterRow(merged_df[i], run))
            /\ total_rows' = total_rows + 1
            /\ Executed("INSERT")
            /\ UNCHANGED <<errors, logged>>
    /\ MasterLoop
    /\ UNCHANGED <<frames, stage, db, conn, log, attempts, faults, absorbed, failedAt,
                   completed, env>>

\* The insert loop of load_master_table without its try/except.
MasterInsertFails_Fatal ==
    /\ pc = "insert" /\ stage = Master
    /\ faults < MaxFaults
    /\ faults' = faults + 1
    /\ Raise(Master)
    /\ UNCHANGED <<frames, stage, counters, db, conn, sqlLog, attempts, absorbed,
                   completed, env>>

\* The server fails an INSERT of load_master_table: the except clause takes it
\* for a row error.
MasterInsertFails ==
    /\ pc = "insert" /\ stage = Master
    /\ faults < MaxFaults
    /\ faults' = faults + 1
    /\ absorbed' = absorbed + 1
    /\ RowError
    /\ MasterLoop
    /\ UNCHANGED <<frames, stage, db, conn, log, attempts, failedAt, completed, env>>

\* The insert loop of an aggregator: no try/except, a rejected row raises.
InsertSummary ==
    /\ pc = "insert" /\ stage # Master
    /\ IF Rejects(stage, Frame(stage)[i])
       THEN /\ Raise(stage)
            /\ UNCHANGED <<i, sqlLog>>
       ELSE /\ uncommitted' = Append(uncommitted, SqlRow(stage, Frame(stage)[i], run))
            /\ Executed("INSERT")
            /\ i' = i + 1
            /\ pc' = IF i = Len(Frame(stage)) THEN "commit" ELSE "insert"
            /\ UNCHANGED <<failedAt, log>>
    /\ UNCHANGED <<frames, stage, total_rows, errors, logged, db, conn, attempts,
                   faults, absorbed, completed, env>>

\* connection.commit()
CommitStep ==
    /\ pc = "commit"
    /\ db' = CommitRows(db, stage, uncommitted)
    /\ uncommitted' = <<>>
    /\ Executed("COMMIT")
    /\ IF stage = Master /\ i <= Len(merged_df)
       THEN pc' = "insert" /\ UNCHANGED <<stage, log>>
       ELSE /\ pc' = AfterStage /\ stage' = StageAfter(AfterStage)
            /\ log' = Append(log, StageReport)
    /\ UNCHANGED <<frames, counters, conn, attempts, faults, absorbed, failedAt,
                   completed, env>>

\* The server fails a DROP, a CREATE, a COMMIT or an aggregator's INSERT.
SinkFails ==
    /\ pc \in {"drop", "create", "commit"} \/ (pc = "insert" /\ stage # Master)
    /\ faults < MaxFaults
    /\ faults' = faults + 1
    /\ Raise(stage)
    /\ UNCHANGED <<frames, stage, counters, db, conn, sqlLog, attempts, absorbed,
                   completed, env>>

\* The loader of table t has logged its last line.
Finished(t) == \E k \in 1..Len(log) : log[k].event = "loaded" /\ log[k].at = t

\* The tables still to load, and the first of them in the order of the run.
Pending == {t \in Tables : ~Finished(t)}

NextPending ==
    plan[CHOOSE k \in 1..Len(plan) :
             plan[k] \in Pending /\ \A j \in 1..(k - 1) : plan[j] \notin Pending]

\* The run goes on with the task of table t: from its start, or from where
\* it was left.
Resume(t) ==
    /\ stage' = t
    /\ parked' = [parked EXCEPT ![t] = <<>>]
    /\ IF parked[t] = <<>>
       THEN pc' = "connect" /\ UNCHANGED <<i, uncommitted>>
       ELSE /\ pc' = parked[t][1].pc
            /\ i' = parked[t][1].i
            /\ uncommitted' = parked[t][1].uncommitted

\* connection.close(); after the last table the run reports success.
CloseConnection ==
    /\ pc = "close"
    /\ IF Pending = {}
       THEN /\ pc' = "done"
            /\ conn' = "closed"
            /\ completed' = Append(completed, [tables |-> BusinessContents(db),
                                               absorbed |-> absorbed])
            /\ log' = Append(log, SuccessMsg)
            /\ UNCHANGED <<stage, i, uncommitted, parked>>
       ELSE /\ Resume(NextPending)
            /\ conn' = IF parked[NextPending] = <<>> THEN "closed" ELSE "open"
            /\ UNCHANGED <<completed, log>>
    /\ UNCHANGED <<frames, total_rows, errors, logged, db, sqlLog, attempts, faults,
                   absorbed, failedAt, impl, nan_binding, files, run, dbBefore, plan,
                   deploy>>

\* The tasks of the summaries submitted to run concurrently, each on its own
\* connection: between two statements of one task another task runs.
Yield ==
    /\ impl = "prefect"
    /\ stage \in Tables \ {Master}
    /\ pc \in {"create", "insert", "commit"}
    /\ \E t \in Pending \ {stage} :
          /\ stage' = t
          /\ parked' = [parked EXCEPT
                           ![stage] = <<[pc |-> pc, i |-> i, uncommitted |-> uncommitted]>>,
                           ![t] = <<>>]
          /\ IF parked[t] = <<>>
             THEN pc' = "connect" /\ i' = 1 /\ uncommitted' = <<>>
             ELSE /\ pc' = parked[t][1].pc
                  /\ i' = parked[t][1].i
                  /\ uncommitted' = parked[t][1].uncommitted
    /\ UNCHANGED <<frames, total_rows, errors, logged, db, conn, sqlLog, log, attempts,
                   faults, absorbed, failedAt, completed, impl, nan_binding, files,
                   run, dbBefore, plan, deploy>>

\* The pipeline is started again on the same files (a new process).
Restart ==
    /\ pc \in {"done", "failed"}
    /\ run < MaxRuns
    /\ run' = run + 1
    /\ dbBefore' = db
    /\ raw' = NoFrames
    /\ customers' = <<>> /\ orders' = <<>> /\ merged_df' = <<>>
    /\ order_items' = <<>> /\ payments' = <<>>
    /\ sales_summary' = <<>> /\ delivery_summary' = <<>>
    /\ product_summary' = <<>> /\ state_summary' = <<>>
    /\ pc' = "extract" /\ stage' = "extract"
    /\ i' = 1 /\ total_rows' = 0 /\ errors' = 0 /\ logged' = 0
    /\ uncommitted' = <<>> /\ conn' = "none" /\ sqlLog' = NoStatements /\ log' = <<>>
    /\ attempts' = 0 /\ absorbed' = 0 /\ failedAt' = ""
    /\ parked' = NoneParked
    /\ UNCHANGED <<impl, nan_binding, files, db, faults, completed, deploy>>

Rerun == Restart /\ UNCHANGED plan

\* The pipeline is started again with its aggregators called in another order.
RerunAnyOrder == Restart /\ plan' \in IF impl = "olist" THEN Plans ELSE {StageOrder}

\* The run with nothing failing around it.
NextDataFlow ==
    \/ ExtractData
    \/ TransformData
    \/ CreateConnection
    \/ ComputeSalesSummary
    \/ ComputeDeliverySummary
    \/ ComputeProductSummary
    \/ ComputeStateSummary
    \/ DropStep
    \/ CreateStep
    \/ InsertMaster
    \/ InsertSummary
    \/ CommitStep
    \/ CloseConnection

Next ==
    \/ NextDataFlow
    \/ ExtractFails
    \/ ConnectFails
    \/ MasterInsertFails
    \/ SinkFails
    \/ Rerun

Spec == Init /\ [][Next]_vars

\* The runs with the summaries loaded in any order and, under Prefect, with
\* their tasks taking turns.
NextAnyOrder ==
    \/ NextDataFlow
    \/ Yield
    \/ RerunAnyOrder

SpecAnyOrder == Init /\ [][NextAnyOrder]_vars

(***************************************************************************)
(* deploy.py: main runs six steps and exits.  The fifth step runs          *)
(* pipeline_olist.py as a child process and waits for it, 300 seconds at   *)
(* most.                                                                   *)
(***************************************************************************)
DeploySteps == <<"mysql", "packages", "database", "files", "pipeline", "prefect">>

\* main as it starts; `missing`: one of the four files is not under data/.
Deploying(missing) ==
    [at |-> "mysql", ran |-> <<>>, exit |-> -1, failed |-> "", missing |-> missing,
     timed_out |-> FALSE, prefect |-> ""]

InitDeploy ==
    /\ InitRun(Scenarios)
    /\ impl = "olist"
    /\ pc = "idle"
    /\ deploy \in {Deploying(m) : m \in BOOLEAN}

\* Everything but deploy.
pipeline == <<frames, pc, stage, counters, db, uncommitted, conn, sqlLog, log, attempts,
              faults, absorbed, failedAt, completed, impl, nan_binding, files, run,
              dbBefore, plan, parked>>

\* sys.exit(1) in main after a step returned False.
Exit1(step) == [deploy EXCEPT !.at = "exit", !.exit = 1, !.failed = step]

\* A step of main that has run and returned ok: main goes on to the next
\* step or exits with status 1.
StepEnds(step, ok, next) ==
    deploy' = IF ok THEN [deploy EXCEPT !.at = next, !.ran = Append(@, step)]
              ELSE [Exit1(step) EXCEPT !.ran = Append(@, step)]

test_mysql_connection ==
    /\ deploy.at = "mysql"
    /\ \E ok \in BOOLEAN : StepEnds("mysql", ok, "packages")
    /\ UNCHANGED pipeline

install_packages ==
    /\ deploy.at = "packages"
    /\ \E ok \in BOOLEAN : StepEnds("packages", ok, "database")
    /\ UNCHANGED pipeline

setup_database ==
    /\ deploy.at = "database"
    /\ \E ok \in BOOLEAN : StepEnds("database", ok, "files")
    /\ UNCHANGED pipeline

\* check_data_files with main going on whatever it returned.
check_data_files_Ignored ==
    /\ deploy.at = "files"
    /\ StepEnds("files", TRUE, "pipeline")
    /\ UNCHANGED pipeline

\* check_data_files: False when one of the four files does not exist.
check_data_files ==
    /\ deploy.at = "files"
    /\ StepEnds("files", ~deploy.missing, "pipeline")
    /\ UNCHANGED pipeline

\* run_pipeline of deploy.py up to subprocess.run: the child process starts
\* when pipeline_olist.py (or pipeline_obist.py) is found.
run_pipeline_starts ==
    /\ deploy.at = "pipeline"
    /\ pc = "idle"
    /\ \E found \in BOOLEAN :
          IF found
          THEN /\ pc' = "extract"
               /\ deploy' = [deploy EXCEPT !.ran = Append(@, "pipeline")]
          ELSE /\ StepEnds("pipeline", FALSE, "prefect")
               /\ UNCHANGED pc
    /\ UNCHANGED <<frames, stage, counters, db, uncommitted, conn, sqlLog, log, attempts,
                   faults, absorbed, failedAt, completed, impl, nan_binding, files, run,
                   dbBefore, plan, parked>>

\* The child process has ended: return code 0 after run_pipeline returned,
\* 1 after it raised.
run_pipeline_returns ==
    /\ deploy.at = "pipeline"
    /\ pc \in {"done", "failed"}
    /\ deploy' = IF pc = "done" THEN [deploy EXCEPT !.at = "prefect"]
                 ELSE Exit1("pipeline")
    /\ UNCHANGED pipeline

\* subprocess.TimeoutExpired: the child is killed where it is; what it had
\* not committed is rolled back.
run_pipeline_times_out ==
    /\ deploy.at = "pipeline"
    /\ pc \notin {"idle", "done", "failed", "killed"}
    /\ pc' = "killed"
    /\ uncommitted' = <<>>
    /\ deploy' = [Exit1("pipeline") EXCEPT !.timed_out = TRUE]
    /\ UNCHANGED <<frames, stage, counters, db, conn, sqlLog, log, attempts,
                   faults, absorbed, failedAt, completed, impl, nan_binding, files, run,
                   dbBefore, plan, parked>>

\* setup_prefect, whose result main does not look at, then print_next_steps
\* and the end of main.
setup_prefect ==
    /\ deploy.at = "prefect"
    /\ \E outcome \in {"created", "warning", "skipped"} :
          deploy' = [deploy EXCEPT !.at = "exit", !.ran = Append(@, "prefect"),
                                   !.exit = 0, !.prefect = outcome]
    /\ UNCHANGED pipeline

NextDeploy ==
    \/ test_mysql_connection
    \/ install_packages
    \/ setup_database
    \/ check_data_files
    \/ run_pipeline_starts
    \/ run_pipeline_returns
    \/ run_pipeline_times_out
    \/ setup_prefect
    \/ NextDataFlow
    \/ ExtractFails
    \/ ConnectFails
    \/ MasterInsertFails
    \/ SinkFails

SpecDeploy == InitDeploy /\ [][NextDeploy]_vars

SpecDataFlow == InitDataFlow /\ [][NextDataFlow]_vars

(***************************************************************************)
(* Properties of the transform.                                            *)
(***************************************************************************)
\* The frames of the current run hold the result of transform_data.
Transformed == stage \in Tables

Complete(r, required) == \A c \in required : r[c] # NULL

\* Every complete row of the input is a row of the cleaned frame, compared on
\* the columns the input has.
KeepsComplete(clean, input, required) ==
    /\ Len(clean) <= Len(input)
    /\ Len(clean) = Cardinality({k \in 1..Len(input) : Complete(input[k], required)})
    /\ \A r \in Range(input) :
          Complete(r, required) =>
              \E k \in Range(clean) : \A c \in DOMAIN r \ {"order_purchase_timestamp",
                                                           "order_delivered_customer_date"} :
                  k[c] = r[c]

\* C1: after the cleaning step no customer has a null customer_id, no order a
\* null order_id or customer_id, no order item and no payment a null order_id;
\* each cleaned frame has at most as many rows as its input and keeps every
\* row whose required columns are all present.
C1_CleaningExclusionary ==
    Transformed =>
        /\ \A r \in Range(customers) : r.customer_id # NULL
        /\ \A r \in Range(orders) : r.order_id # NULL /\ r.customer_id # NULL
        /\ \A r \in Range(order_items) : r.order_id # NULL
        /\ \A r \in Range(payments) : r.order_id # NULL
        /\ KeepsComplete(customers, raw.customers, {"customer_id"})
        /\ KeepsComplete(orders, raw.orders, {"order_id", "customer_id"})
        /\ KeepsComplete(order_items, raw.order_items, {"order_id"})
        /\ KeepsComplete(payments, raw.payments, {"order_id"})

\* A run that cleaned away a row of the orders for its missing customer_id,
\* and kept another.
C1_Witness ==
    /\ Transformed
    /\ \E r \in Range(raw.orders) : r.customer_id = NULL /\ r.order_id # NULL
    /\ Len(orders) < Len(raw.orders)
    /\ orders # <<>>

HasCustomer(m) == \E c \in Range(customers) : c.customer_id = m.customer_id
HasItem(m) == \E it \in Range(order_items) : it.order_id = m.order_id
HasPayment(m) == \E p \in Range(payments) : p.order_id = m.order_id

\* C2: every order that survives cleaning has at least one row in the merged
\* relation, whether or not a customer, an order item or a payment matches
\* it; the columns of an unmatched side are missing in its rows.
C2_LeftJoinCompleteness ==
    Transformed =>
        /\ \A o \in Range(orders) :
              \E m \in Range(merged_df) :
                  m.order_id = o.order_id /\ m.customer_id = o.customer_id
        /\ \A m \in Range(merged_df) :
              /\ ~HasCustomer(m) =>
                    /\ m.customer_city = NULL /\ m.customer_state = NULL
                    /\ m.customer_zip_code_prefix = NULL
              /\ ~HasItem(m) =>
                    m.product_id = NULL /\ m.price = NaN /\ m.freight_value = NaN
              /\ ~HasPayment(m) => m.payment_type = NULL /\ m.payment_value = NaN

\* An order with no customer, no item and no payment has its row.
C2_Witness ==
    /\ Transformed
    /\ \E m \in Range(merged_df) :
          /\ ~HasCustomer(m) /\ ~HasItem(m) /\ ~HasPayment(m)
          /\ m.customer_state = NULL /\ m.product_id = NULL /\ m.payment_type = NULL

UniqueKey(df, key) ==
    \A a, b \in 1..Len(df) : a # b => df[a][key] # df[b][key]

OrOne(n) == IF n = 0 THEN 1 ELSE n

RowsOf(df, oid) == Cardinality({k \in 1..Len(df) : df[k].order_id = oid})

\* C3: customer_id being the unique key of the customers and order_id that of
\* the orders, an order with i cleaned items and p cleaned payments has
\* exactly i*p merged rows, 0 counting as 1.
C3_FanOut ==
    (Transformed /\ UniqueKey(customers, "customer_id") /\ UniqueKey(orders, "order_id")) =>
        \A o \in Range(orders) :
            RowsOf(merged_df, o.order_id)
                = OrOne(RowsOf(order_items, o.order_id)) * OrOne(RowsOf(payments, o.order_id))

\* The order with 2 items and 3 payments has 6 merged rows.
C3_Witness ==
    /\ Transformed
    /\ UniqueKey(customers, "customer_id") /\ UniqueKey(orders, "order_id")
    /\ \E o \in Range(orders) :
          /\ RowsOf(order_items, o.order_id) = 2
          /\ RowsOf(payments, o.order_id) = 3
          /\ RowsOf(merged_df, o.order_id) = 6


(***************************************************************************)
(* Properties of the summaries.                                            *)
(***************************************************************************)
\* The current run has computed the data frame of table t.
Reached(t) ==
    /\ stage \in Tables
    /\ \/ StageIndex(stage) > StageIndex(t)
       \/ stage = t /\ pc \in {"drop", "create", "insert", "commit", "close", "done"}

\* The current run has committed the last row of table t.
Loaded(t) ==
    /\ stage \in Tables
    /\ \/ StageIndex(stage) > StageIndex(t)
       \/ stage = t /\ pc \in {"close", "done"}

\* The merged rows of the (customer_id, customer_state, customer_city) of r.
SalesGroup(r) ==
    SelectSeq(merged_df, LAMBDA m : /\ m.customer_id = r.customer_id
                                    /\ m.customer_state = r.customer_state
                                    /\ m.customer_city = r.customer_city)

CountsItsGroup(r) ==
    /\ r.total_orders = Cardinality({m.order_id : m \in Range(SalesGroup(r))})
    /\ r.total_items = Len(SalesGroup(r))
    /\ r.total_items >= 1

\* C4: total_orders of a sales_summary row is the number of distinct
\* order_ids among the merged rows of its (customer_id, customer_state,
\* customer_city) and total_items the number of those rows, in the data frame
\* and in the table; the customer with 1 order of 2 items and 3 payments shows
\* total_orders = 1 and total_items = 6.
C4_DistinctCounting ==
    /\ Reached(Sales) =>
          /\ \A r \in Range(sales_summary) : CountsItsGroup(r)
          /\ files = ScenarioFanOut =>
                /\ Len(sales_summary) = 1
                /\ sales_summary[1].total_orders = 1
                /\ sales_summary[1].total_items = 6
    /\ Loaded(Sales) =>
          /\ Len(db[Sales].rows) = Len(sales_summary)
          /\ \A r \in Range(db[Sales].rows) : CountsItsGroup(r)

\* The table of the customer with 1 order, 2 items and 3 payments.
C4_Witness ==
    /\ files = ScenarioFanOut
    /\ Loaded(Sales)
    /\ Len(db[Sales].rows) = 1
    /\ db[Sales].rows[1].total_orders = 1
    /\ db[Sales].rows[1].total_items = 6

WithState(df) == Cardinality({k \in 1..Len(df) : df[k].customer_state # NULL})

\* C5: the total_items of the state_summary rows add up to the number of
\* merged rows with a customer_state; the merged rows without one are in no
\* row of state_summary, which has no row for the missing state.
C5_AggregateConservation ==
    /\ Reached(State) =>
          /\ SumSeq(Column(state_summary, "total_items")) = WithState(merged_df)
          /\ \A r \in Range(state_summary) : r.customer_state # NULL
    /\ Loaded(State) =>
          /\ SumSeq(Column(db[State].rows, "total_items")) = WithState(merged_df)
          /\ \A r \in Range(db[State].rows) : r.customer_state \notin {NULL, None}

\* A run with a merged row that has no customer_state, and one that has.
C5_Witness ==
    /\ Loaded(State)
    /\ \E m \in Range(merged_df) : m.customer_state = NULL
    /\ WithState(merged_df) >= 1
    /\ WithState(merged_df) < Len(merged_df)
    /\ db[State].rows # <<>>

\* C6: every delivery_summary row has at least one order, no more delivered
\* orders than orders, and the delivery_rate delivered_orders / total_orders
\* * 100, a number from 0 to 100; so has every row of the table.
C6_DeliveryRateBound ==
    /\ Reached(Delivery) =>
          \A r \in Range(delivery_summary) :
              /\ r.total_orders >= 1
              /\ r.delivered_orders >= 0
              /\ r.delivered_orders <= r.total_orders
              /\ r.delivery_rate.n > 0
              /\ r.delivery_rate.s * r.total_orders
                     = 100 * r.delivered_orders * r.delivery_rate.n
              /\ 0 <= r.delivery_rate.s
              /\ r.delivery_rate.s <= 100 * r.delivery_rate.n
    /\ Loaded(Delivery) =>
          \A r \in Range(db[Delivery].rows) :
              /\ r.total_orders >= 1
              /\ r.delivered_orders <= r.total_orders
              /\ Len(r.delivery_rate) = 1
              /\ 0 <= r.delivery_rate[1]
              /\ r.delivery_rate[1] <= 10000

\* A state with two orders, one of them delivered: 50.00.
C6_Witness ==
    /\ Loaded(Delivery)
    /\ \E r \in Range(db[Delivery].rows) :
          /\ r.total_orders = 2
          /\ r.delivered_orders = 1
          /\ r.delivery_rate = <<5000>>

\* The tables after the scenario: 2 master rows for the order, and the SP row
\* of state_summary with the given total_revenue (in cents).
ScenarioShows(revenue) ==
    /\ Len(db[Master].rows) = 2
    /\ \A r \in Range(db[Master].rows) : r.order_id = "o1" /\ r.payment_value = 3300
    /\ \E r \in Range(db[State].rows) :
          /\ r.customer_state = "SP"
          /\ r.total_customers = 1
          /\ r.total_orders = 1
          /\ r.total_revenue = revenue
          /\ r.total_items = 2

\* C7 as stated: the scenario ends with total_revenue = 33.00.
C7_Original ==
    (files = ScenarioState /\ pc = "done") => ScenarioShows(3300)

\* C7: with 2 customers (SP, RJ), the SP customer placing 1 order with 2
\* items (10.00, 20.00) and 1 payment of 33.00, the master table holds 2 rows
\* for the order, each with the payment of 33.00, and the only state_summary
\* row is that of SP with total_customers = 1, total_orders = 1,
\* total_items = 2 and total_revenue = 66.00, the payment summed once for
\* each of the 2 rows.
C7_ConcreteScenario ==
    (files = ScenarioState /\ pc = "done") =>
        /\ ScenarioShows(6600)
        /\ Len(db[State].rows) = 1

\* The scenario has run to its end.
C7_Witness ==
    /\ files = ScenarioState
    /\ pc = "done"
    /\ Len(db[State].rows) = 1
    /\ db[State].rows[1].total_revenue = 6600

(***************************************************************************)
(* Properties of the run and of runs after one another.                    *)
(***************************************************************************)
\* The runs that ended well with every row of the master table inserted.
CleanRuns == {k \in 1..Len(completed) : completed[k].absorbed = 0}

\* C8: the runs of the whole pipeline on the same input that insert every
\* row leave the five tables with the same business columns, one run as the
\* other; and when a run has ended well every table exists and holds rows of
\* that run only, none of an earlier one.
C8_IdempotentRebuild ==
    /\ \A a, b \in CleanRuns : completed[a].tables = completed[b].tables
    /\ pc = "done" =>
          \A t \in Tables :
              /\ db[t].exists
              /\ \A r \in Range(db[t].rows) : Stamp(r) = run
              /\ t # Master => Len(db[t].rows) = Len(Frame(t))
              /\ absorbed = 0 => BusinessContents(db) = completed[Len(completed)].tables

\* Two runs ended well, the second over the filled tables of the first.
C8_Witness ==
    /\ pc = "done"
    /\ run = 2
    /\ Cardinality(CleanRuns) = 2
    /\ \A t \in Tables : dbBefore[t].rows # <<>> /\ db[t].rows # <<>>

\* The current run has executed the DROP of table t.
Dropped(t) == \E k \in 1..Len(sqlLog[t]) : sqlLog[t][k] = "DROP"

\* C9 as stated: after a run that failed past a DROP, every table is absent.
C9_Original ==
    (pc = "failed" /\ \E t \in Tables : Dropped(t)) =>
        \A t \in Tables : ~db[t].exists

\* C9: a table's earlier contents are discarded when the run reaches the
\* DROP of that table, at the start of the table's own load.  After a failed
\* run, a table the run dropped holds no row of an earlier run (it is absent,
\* or re-created and holding what the run committed), and a table the run had
\* not reached is exactly as it was before the run.
C9_DropSemantics ==
    pc = "failed" =>
        \A t \in Tables :
            /\ Dropped(t) => \A r \in Range(db[t].rows) : Stamp(r) = run
            /\ ~Dropped(t) => db[t] = dbBefore[t]

\* A second run that failed after the master table was re-created, with the
\* rows of the first run still in a table it did not reach.
C9_Witness ==
    /\ pc = "failed"
    /\ run = 2
    /\ Dropped(Master)
    /\ db[Master].exists
    /\ \E t \in Tables :
          /\ ~Dropped(t)
          /\ db[t].rows # <<>>
          /\ \A r \in Range(db[t].rows) : Stamp(r) = 1

\* C10: when a file cannot be read and the run fails for it, no connection
\* to the database has been opened and no statement executed, and the five
\* tables are as they were before the run.
C10_SourceUnavailableAborts ==
    failedAt = "extract" =>
        /\ pc = "failed"
        /\ conn = "none"
        /\ sqlLog = NoStatements
        /\ uncommitted = <<>>
        /\ db = dbBefore

\* A second run failed at the files, over the tables of the first.
C10_Witness ==
    /\ failedAt = "extract"
    /\ run = 2
    /\ \A t \in Tables : db[t].rows # <<>>

(***************************************************************************)
(* Failures of the sink.                                                   *)
(***************************************************************************)
\* The tables loaded before the current stage hold what the current run
\* committed to them: every row of their data frame, for the master table
\* every row inserted.
EarlierTablesKept ==
    \A t \in Tables :
        StageIndex(t) < StageIndex(stage) =>
            /\ db[t].exists
            /\ \A r \in Range(db[t].rows) : Stamp(r) = run
            /\ Len(db[t].rows) = IF t = Master THEN total_rows ELSE Len(Frame(t))

\* The step is the server rejecting the statement the run is at.
SinkRejects ==
    \/ faults' = faults + 1 /\ pc \in {"drop", "create", "insert", "commit"}
    \/ pc = "insert" /\ Rejects(stage, Frame(stage)[i])

\* C11 as stated: a run in which the sink rejected an INSERT into the master
\* table has failed.
C11_Original == errors > 0 => pc = "failed"

\* C11: a DROP, CREATE or COMMIT the sink rejects, and an INSERT it rejects
\* while a summary table is loaded, fails the stage and the run, which changes
\* no table any more; a rejected INSERT into the master table does not: the
\* row is counted as an error and the load goes on.  After a failure at a
\* table's stage, every table loaded earlier in the run keeps the contents
\* the run gave it.
C11_PersistenceError ==
    /\ [](pc = "failed" /\ stage \in Tables => EarlierTablesKept)
    /\ [][SinkRejects =>
             IF pc = "insert" /\ stage = Master
             THEN /\ pc' \in {"insert", "commit"}
                  /\ errors' = errors + 1
                  /\ total_rows' = total_rows
                  /\ db' = db
             ELSE /\ pc' = "failed"
                  /\ failedAt' = stage
                  /\ db' = db]_vars

\* A second run failed while loading delivery_summary, with the master table
\* and sales_summary rebuilt.
C11_Witness ==
    /\ pc = "failed"
    /\ failedAt = Delivery
    /\ run = 2
    /\ \A t \in {Master, Sales} :
          /\ dbBefore[t].rows # <<>>
          /\ db[t].rows # <<>>
          /\ \A r \in Range(db[t].rows) : Stamp(r) = run
    /\ \A r \in Range(db[Delivery].rows) : Stamp(r) = run
    /\ \A r \in Range(db[State].rows) : Stamp(r) = 1

(***************************************************************************)
(* The load of the master table.                                           *)
(***************************************************************************)
\* The first n merged rows MySQL does not take.
RejectedRows(n) == {k \in 1..n : MasterRejects(merged_df[k])}

\* The master rows the current run has inserted, committed or not yet.
Inserted == db[Master].rows \o uncommitted

\* C12: in load_master_table a row whose INSERT raises is skipped and
\* counted: while the table is loaded every row before the current one is
\* either inserted or counted in `errors`, the rows MySQL rejects are among the
\* counted and none of them is in the table; the load goes on to the last
\* row, after which rows inserted and errors add up to the merged rows; no
\* more than the first 5 errors are logged; and the last line of the loader
\* reports the number of errors.
C12_RowFailuresAbsorbed ==
    /\ logged <= 5
    /\ logged <= errors
    /\ impl = "olist" => logged = (IF errors <= 5 THEN errors ELSE 5)
    /\ stage = Master /\ pc \in {"insert", "commit"} =>
          /\ total_rows + errors = i - 1
          /\ total_rows = Len(Inserted)
          /\ Cardinality(RejectedRows(i - 1)) <= errors
          /\ errors - absorbed <= Cardinality(RejectedRows(i - 1))
          /\ \A r \in Range(Inserted) :
                r.order_purchase_timestamp # <<BadTs>>
    /\ Loaded(Master) =>
          /\ total_rows + errors = Len(merged_df)
          /\ Len(db[Master].rows) = total_rows
          /\ \E k \in 1..Len(log) : log[k] = LoadedMsg(Master, total_rows, <<errors>>)

\* A run of pipeline_olist that ended well with 6 rows in error, 5 of them
\* logged, and the row after them in the table.
C12_Witness ==
    /\ pc = "done"
    /\ impl = "olist"
    /\ errors = 6
    /\ logged = 5
    /\ total_rows = 1
    /\ Len(db[Master].rows) = 1

\* The number of merged rows in the batches before the one row n is in.
BatchStart(n) == ((n - 1) \div batch_size) * batch_size

\* The current run has executed the CREATE of the master table.
MasterCreated == \E k \in 1..Len(sqlLog[Master]) : sqlLog[Master][k] = "CREATE"

\* C13: load_master_table takes the merged rows in consecutive batches of
\* batch_size rows and commits after each: the rows inserted and not yet
\* committed are never more than batch_size and are all of the current batch,
\* the rows of the batches before it are committed; and when the load fails
\* the table holds every row inserted from the earlier batches, the rows lost
\* being at most batch_size.
C13_BatchedDurability ==
    /\ Len(uncommitted) <= batch_size
    /\ stage = Master /\ pc = "insert" =>
          /\ Len(uncommitted) <= (i - 1) - BatchStart(i)
          /\ Len(db[Master].rows) <= BatchStart(i)
          /\ Len(db[Master].rows) + Cardinality(RejectedRows(BatchStart(i))) + absorbed
                >= BatchStart(i)
    /\ stage = Master /\ pc = "commit" =>
          /\ Len(uncommitted) <= (i - 1) - BatchStart(i - 1)
          /\ (i - 1) % batch_size = 0 \/ i - 1 = Len(merged_df)
    /\ pc = "failed" /\ failedAt = Master /\ MasterCreated =>
          /\ total_rows - Len(db[Master].rows) \in 0..batch_size
          /\ \A r \in Range(db[Master].rows) : Stamp(r) = run

\* The load failed at the commit of a later batch: the rows of the batches
\* before it are in the table, those of the failed batch are not.
C13_Witness ==
    /\ pc = "failed"
    /\ failedAt = Master
    /\ Len(db[Master].rows) >= batch_size
    /\ total_rows = Len(db[Master].rows) + batch_size

(***************************************************************************)
(* Null aggregates of the summaries.                                       *)
(***************************************************************************)
\* The cell of column col in the sales_summary row of data frame row n is 0
\* when the customer's merged rows have no value in column of.
ZeroForNull(n, col, of) ==
    IsNaNFloat(AggMean(SalesGroup(sales_summary[n]), of)) =>
        db[Sales].rows[n][col] = <<0>>

\* C14: in both implementations the load of sales_summary does not fail for
\* a null aggregate, and the table holds 0 for avg_order_value, avg_price and
\* avg_freight of a customer with no payment or no item values (total_spent,
\* a sum, is 0 for such a customer already).
C14_NullAggregatesZero ==
    /\ failedAt # Sales
    /\ Loaded(Sales) =>
          \A n \in 1..Len(sales_summary) :
              /\ ZeroForNull(n, "avg_order_value", "payment_value")
              /\ ZeroForNull(n, "avg_price", "price")
              /\ ZeroForNull(n, "avg_freight", "freight_value")
              /\ db[Sales].rows[n].total_spent = AggSum(SalesGroup(sales_summary[n]), "payment_value")

(***************************************************************************)
(* The delivery summary.                                                   *)
(***************************************************************************)
\* The orders of state st, as create_delivery_summary joins them.
DeliveryGroup(st) ==
    SelectSeq(merge(orders, customers, "customer_id", NoCustomer),
              LAMBDA o : o.customer_state = st)

\* The sum over xs of (n * x - s)^2.
RECURSIVE SquaredDeviations(_, _, _)
SquaredDeviations(xs, n, s) ==
    IF xs = <<>> THEN 0
    ELSE (n * Head(xs) - s) * (n * Head(xs) - s) + SquaredDeviations(Tail(xs), n, s)

\* The variance of xs with divisor Len(xs) - ddof, from the deviations of
\* the mean.
Variance(xs, ddof) ==
    LET n == Len(xs)
    IN  Float(SquaredDeviations(xs, n, SumSeq(xs)), n * n * (n - ddof))

SameFloat(a, b) == a.s * b.n = b.s * a.n

ProductRows(p) == SelectSeq(merged_df, LAMBDA m : m.product_id = p)

\* The rows of the product summary for product p.
SummaryRows(p) == SelectSeq(product_summary, LAMBDA r : r.product_id = p)

\* C16 as stated: when a merged row has a null product_id, the product
\* summary has exactly one row for the null product_id, counting these rows.
C16_Original ==
    Reached(Product) /\ ProductRows(NULL) # <<>> =>
        /\ Len(SummaryRows(NULL)) = 1
        /\ SummaryRows(NULL)[1].total_items_sold = Len(ProductRows(NULL))

\* C16: the merged rows with a null product_id (orders with no matched
\* item) are in no group of the Product Aggregator: the product summary has
\* one row for each product_id that is not null, whose total_items_sold is
\* the number of merged rows of that product, and no row for the null
\* product_id; the table product_summary has these rows and no other.
C16_NullProductExcluded ==
    /\ Reached(Product) =>
          /\ SummaryRows(NULL) = <<>>
          /\ \A m \in Range(merged_df) :
                m.product_id # NULL =>
                    /\ Len(SummaryRows(m.product_id)) = 1
                    /\ SummaryRows(m.product_id)[1].total_items_sold
                          = Len(ProductRows(m.product_id))
          /\ \A r \in Range(product_summary) : ProductRows(r.product_id) # <<>>
    /\ Loaded(Product) =>
          /\ Len(db[Product].rows) = Len(product_summary)
          /\ \A r \in Range(db[Product].rows) : r.product_id \notin {NULL, None}

\* A run with a product sold and an order without item, loaded.
C16_Witness ==
    /\ Loaded(Product)
    /\ ProductRows(NULL) # <<>>
    /\ product_summary # <<>>
    /\ Len(db[Product].rows) = Len(product_summary)

(***************************************************************************)
(* The order of the statements.                                            *)
(***************************************************************************)
\* The positions of statement op among those the current run executed on
\* table t.
StatementsOn(t, op) == {k \in 1..Len(sqlLog[t]) : sqlLog[t][k] = op}

\* C17: the statements a run executes on a table are, in this order, one
\* DROP, one CREATE, then the INSERTs, with a COMMIT after the INSERTs (in
\* the master table after those of each batch): no INSERT or COMMIT comes
\* before the table was dropped and created again in the same run, the DROP
\* is the first statement on the table and the CREATE the second, and a
\* table that is loaded has its last INSERT followed by a COMMIT and no row
\* left uncommitted.
C17_SinkOrdering ==
    \A t \in Tables :
        /\ StatementsOn(t, "DROP") \subseteq {1}
        /\ StatementsOn(t, "CREATE") \subseteq {2}
        /\ sqlLog[t] # <<>> => sqlLog[t][1] = "DROP"
        /\ Len(sqlLog[t]) >= 2 => sqlLog[t][2] = "CREATE"
        /\ \A k \in StatementsOn(t, "INSERT") \cup StatementsOn(t, "COMMIT") :
              /\ k > 2
              /\ \E d, c \in 1..(k - 1) :
                    d < c /\ sqlLog[t][d] = "DROP" /\ sqlLog[t][c] = "CREATE"
        /\ StatementsOn(t, "INSERT") # {} => db[t].exists
        /\ Loaded(t) =>
              /\ uncommitted = <<>> \/ stage # t
              /\ StatementsOn(t, "CREATE") # {}
              /\ StatementsOn(t, "INSERT") # {} =>
                    sqlLog[t][Len(sqlLog[t])] = "COMMIT"

\* A second run that ended well, with rows inserted into each of the five
\* tables, which the first run had filled.
C17_Witness ==
    /\ pc = "done"
    /\ run = 2
    /\ \A t \in Tables :
          /\ dbBefore[t].rows # <<>>
          /\ StatementsOn(t, "INSERT") # {}

(***************************************************************************)
(* The aggregators among themselves.                                       *)
(***************************************************************************)
\* The run is at a statement of the aggregator of the current stage.
InAggregator ==
    /\ stage \in Tables \ {Master}
    /\ pc \in {"compute", "drop", "create", "insert", "commit"}

\* C18: a step of an aggregator changes no table and no summary frame but
\* its own and leaves the merged relation and the cleaned customers as they
\* are (the cleaned orders are written by the delivery aggregator alone, the
\* only one to read them); and the runs that ended well on the same input,
\* whatever the order their aggregators were called in and however the
\* statements of the Prefect tasks took turns, left the same contents in all
\* the tables, the run in the order sales, delivery, product, state among
\* them.
C18_AggregatorsIndependent ==
    /\ [](\A a, b \in 1..Len(completed) : completed[a].tables = completed[b].tables)
    /\ [][InAggregator =>
             /\ merged_df' = merged_df
             /\ customers' = customers
             /\ stage # Delivery => orders' = orders
             /\ \A t \in Tables \ {stage} : db'[t] = db[t] /\ sqlLog'[t] = sqlLog[t]
             /\ stage # Sales => sales_summary' = sales_summary
             /\ stage # Delivery => delivery_summary' = delivery_summary
             /\ stage # Product => product_summary' = product_summary
             /\ stage # State => state_summary' = state_summary]_vars

\* Two runs of the Prefect flow ended well, the tasks of the second having
\* taken turns so that state_summary was loaded first and sales_summary last.
C18_Witness ==
    /\ pc = "done"
    /\ impl = "prefect"
    /\ Len(completed) = 2
    /\ log[2].at = State
    /\ log[5].at = Sales
    /\ \A t \in Tables : db[t].rows # <<>>

(***************************************************************************)
(* What a run reports.                                                     *)
(***************************************************************************)
\* The reports of the loaders in the log, in the order they were made.
LoaderReports == SelectSeq(log, LAMBDA m : m.event = "loaded")

Reported(event) == \E k \in 1..Len(log) : log[k].event = event

\* The loaders have reported the first n tables of the run, in order, each
\* with the number of rows of its table.
ReportedInOrder(n) ==
    /\ Len(LoaderReports) = n
    /\ \A k \in 1..n :
          /\ LoaderReports[k].at = StageOrder[k]
          /\ LoaderReports[k].rows = <<Len(db[StageOrder[k]].rows)>>

OrdersOfState(st) ==
    {k \in 1..Len(orders) :
        \E c \in Range(customers) :
            c.customer_id = orders[k].customer_id /\ c.customer_state = st}

\* C20: customer_id being the unique key of the customers, total_orders of
\* a state in the delivery summary, and in the table loaded from it, is the
\* number of cleaned orders whose customer is in that state, whatever the
\* number of their items and payments; every state with such an order has
\* its row.
C20_NoFanOutInDelivery ==
    UniqueKey(customers, "customer_id") =>
        /\ Reached(Delivery) =>
              /\ \A r \in Range(delivery_summary) :
                    r.total_orders = Cardinality(OrdersOfState(r.customer_state))
              /\ \A c \in Range(customers) :
                    c.customer_state # NULL /\ OrdersOfState(c.customer_state) # {} =>
                        \E r \in Range(delivery_summary) :
                            r.customer_state = c.customer_state
        /\ Loaded(Delivery) =>
              \A r \in Range(db[Delivery].rows) :
                  r.total_orders = Cardinality(OrdersOfState(r.customer_state))

\* One order of 2 items and 3 payments, 6 merged rows, counted once.
C20_Witness ==
    /\ Loaded(Delivery)
    /\ UniqueKey(customers, "customer_id")
    /\ \E o \in Range(orders) : RowsOf(merged_df, o.order_id) = 6
    /\ Len(db[Delivery].rows) = 1
    /\ db[Delivery].rows[1].total_orders = 1

(***************************************************************************)
(* Orders without delivery time.                                           *)
(***************************************************************************)
\* The timestamp as read from the file is one.
Parses(v) == v \notin {NaT, BadTs}

\* Both timestamps of the k-th cleaned order, as read from the file, parse.
BothParse(k) ==
    LET o == CleanOrders(raw.orders)[k]
    IN  Parses(o.order_purchase_timestamp) /\ Parses(o.order_delivered_customer_date)

\* The delivery_days of the orders of state st that have one.
DefinedDays(st) ==
    LET g == SelectSeq(DeliveryGroup(st), LAMBDA o : o.delivery_days # <<>>)
    IN  [k \in 1..Len(g) |-> g[k].delivery_days[1]]

\* C21: delivery_days of an order is its whole days from purchase to
\* delivery when both timestamps parse and is null when either is missing or
\* does not parse; an order without delivery_days counts in total_orders of
\* its state and not in delivered_orders, and mean, median, min, max and std
\* are those of the delivery_days that are defined (null when there is none,
\* std when there are fewer than two).
C21_UndeliveredExcluded ==
    Reached(Delivery) =>
        /\ Len(orders) = Len(CleanOrders(raw.orders))
        /\ \A k \in 1..Len(orders) :
              LET o == CleanOrders(raw.orders)[k]
              IN  orders[k].delivery_days =
                      IF BothParse(k)
                      THEN <<(o.order_delivered_customer_date
                                - o.order_purchase_timestamp) \div 24>>
                      ELSE <<>>
        /\ \A r \in Range(delivery_summary) :
              LET ds == DefinedDays(r.customer_state)
              IN  /\ r.total_orders = Len(DeliveryGroup(r.customer_state))
                  /\ r.delivered_orders = Len(ds)
                  /\ IF ds = <<>>
                     THEN /\ IsNaNFloat(r.avg_delivery_days)
                          /\ IsNaNFloat(r.median_delivery_days)
                          /\ IsNaNFloat(r.fastest_delivery)
                          /\ IsNaNFloat(r.slowest_delivery)
                     ELSE /\ SameFloat(r.avg_delivery_days, Float(SumSeq(ds), Len(ds)))
                          /\ SameFloat(r.median_delivery_days, Median(ds))
                          /\ \A d \in Range(ds) :
                                /\ r.fastest_delivery.s <= d * r.fastest_delivery.n
                                /\ d * r.slowest_delivery.n <= r.slowest_delivery.s
                          /\ \E d \in Range(ds) : SameFloat(r.fastest_delivery, Float(d, 1))
                          /\ \E d \in Range(ds) : SameFloat(r.slowest_delivery, Float(d, 1))
                  /\ IF Len(ds) < 2 THEN IsNaNFloat(r.std_delivery_days)
                     ELSE SameFloat(r.std_delivery_days, Variance(ds, 1))

\* A state with two orders, one of them with a purchase timestamp that does
\* not parse: 2 orders, 1 delivered, after 2 days.
C21_Witness ==
    /\ Loaded(Delivery)
    /\ \E k \in 1..Len(orders) : ~BothParse(k)
    /\ \E n \in 1..Len(delivery_summary) :
          /\ delivery_summary[n].total_orders = 2
          /\ delivery_summary[n].delivered_orders = 1
          /\ db[Delivery].rows[n].avg_delivery_days = <<200>>
          /\ db[Delivery].rows[n].std_delivery_days = <<>>

(***************************************************************************)
(* The master table and the merged relation.                               *)
(***************************************************************************)
\* Sequence a is b with some of its elements left out.
RECURSIVE IsSubseq(_, _)
IsSubseq(a, b) ==
    IF a = <<>> THEN TRUE
    ELSE IF b = <<>> THEN FALSE
    ELSE IF Head(a) = Head(b) THEN IsSubseq(Tail(a), Tail(b))
    ELSE IsSubseq(a, Tail(b))

\* The first n merged rows as load_master_table binds them in the current
\* run.
Projected(n) == [k \in 1..n |-> MasterRow(merged_df[k], run)]

\* C22: while load_master_table runs, the rows it has inserted are rows of
\* the merged relation read so far, in the order of the merged relation;
\* when it has finished, rows inserted and row errors add up to the rows of
\* the merged relation, olist_master holds the inserted rows in that order,
\* and with no row error it holds the projection of every merged row, one
\* row for each.
C22_OneRowPerMergedRecord ==
    /\ stage = Master /\ pc \in {"insert", "commit"} =>
          IsSubseq(Inserted, Projected(i - 1))
    /\ Loaded(Master) =>
          /\ total_rows + errors = Len(merged_df)
          /\ Len(db[Master].rows) = total_rows
          /\ IsSubseq(db[Master].rows, Projected(Len(merged_df)))
          /\ errors = 0 => db[Master].rows = Projected(Len(merged_df))

\* The load of 6 merged rows finished without a row error.
C22_Witness ==
    /\ Loaded(Master)
    /\ errors = 0
    /\ Len(merged_df) = 6
    /\ Len(db[Master].rows) = 6
    /\ \E a, b \in 1..6 : db[Master].rows[a] # db[Master].rows[b]

(***************************************************************************)
(* A run after a failed run.                                               *)
(***************************************************************************)
\* The rows the loader of table t walks in a run on the files, worked out
\* from the files alone; of the merged rows, those MySQL takes.
FrameFromFiles(t) ==
    LET c == CleanCustomers(files.customers)
        o == CleanOrders(files.orders)
        m == MergeAll(o, c, CleanItems(files.order_items), CleanPayments(files.payments))
    IN  CASE t = Master -> SelectSeq(m, LAMBDA r : ~MasterRejects(r))
          [] t = Sales -> SalesSummaryOf(m, impl)
          [] t = Delivery ->
                DeliverySummaryOf([n \in 1..Len(o) |-> WithDeliveryDays(o[n])], c)
          [] t = Product -> ProductSummaryOf(m)
          [] t = State -> StateSummaryOf(m)

\* The business contents of the five tables, each filled from these rows.
FromClean ==
    [t \in Tables |->
        [exists |-> TRUE,
         rows |-> [n \in 1..Len(FrameFromFiles(t)) |->
                      Business(SqlRow(t, FrameFromFiles(t)[n], 0))]]]

\* C23: a run that ends well with every row inserted leaves in the five
\* tables the rows worked out from the input and nothing else: the first run
\* on an empty database, and as well the run that follows a failed run, over
\* the tables that run left rebuilt, partial, empty or untouched.
C23_SelfHealingRerun ==
    pc = "done" /\ absorbed = 0 =>
        /\ BusinessContents(db) = FromClean
        /\ \A t \in Tables : \A r \in Range(db[t].rows) : Stamp(r) = run

\* A run ended well after a run that had failed leaving the master table
\* filled, sales_summary created and empty and delivery_summary not yet there.
C23_Witness ==
    /\ pc = "done"
    /\ absorbed = 0
    /\ run = 2
    /\ completed # <<>> /\ Len(completed) = 1
    /\ dbBefore[Master].rows # <<>>
    /\ dbBefore[Sales].exists /\ dbBefore[Sales].rows = <<>>
    /\ ~dbBefore[Delivery].exists
    /\ \A t \in Tables : db[t].rows # <<>>

(***************************************************************************)
(* The order of the tables.                                                *)
(***************************************************************************)
RebuildOrder ==
    <<"olist_master", "sales_summary", "delivery_summary", "product_summary",
      "state_summary">>

Position(t) == CHOOSE k \in 1..Len(RebuildOrder) : RebuildOrder[k] = t

\* The tables after the one the run is at; all five before the first load.
TablesAhead ==
    IF stage \in Tables THEN {t \in Tables : Position(t) > Position(stage)} ELSE Tables

Unmatched(r) == \A c \in Range(customers) : c.customer_id # r.customer_id

Matched(df) == SelectSeq(df, LAMBDA r : ~Unmatched(r))

RECURSIVE SumTotalOrders(_)
SumTotalOrders(rs) ==
    IF rs = <<>> THEN 0 ELSE Head(rs).total_orders + SumTotalOrders(Tail(rs))

\* The order ids of the rows of the master table.
MasterOrders == {r.order_id : r \in Range(db[Master].rows)}

\* C25: a merged row of an order whose customer_id is that of no customer
\* has customer_state and customer_city null, and olist_master holds it with
\* both fields null; the sales, state and delivery summaries are what they
\* would be without these orders, which are in none of their rows.  (The sum
\* of total_orders over the state summary is then the number of orders of a
\* known customer, order_id and customer_id being keys: smaller than the
\* number of orders in the master table when there is such an order.)
C25_UnmatchedOrders ==
    /\ Transformed =>
          \A m \in Range(merged_df) :
              Unmatched(m) => m.customer_state = NULL /\ m.customer_city = NULL
    /\ Loaded(Master) /\ errors = 0 =>
          \A k \in 1..Len(merged_df) :
              Unmatched(merged_df[k]) =>
                  /\ db[Master].rows[k].order_id = merged_df[k].order_id
                  /\ db[Master].rows[k].customer_state = None
                  /\ db[Master].rows[k].customer_city = None
    /\ Reached(Sales) =>
          /\ sales_summary = SalesSummaryOf(Matched(merged_df), impl)
          /\ \A r \in Range(sales_summary) : ~Unmatched(r)
    /\ Reached(Delivery) =>
          /\ delivery_summary = DeliverySummaryOf(Matched(orders), customers)
          /\ \A r \in Range(delivery_summary) :
                r.total_orders = Len(SelectSeq(DeliveryGroup(r.customer_state),
                                               LAMBDA o : ~Unmatched(o)))
    /\ Reached(State) =>
          /\ state_summary = StateSummaryOf(Matched(merged_df))
          /\ UniqueKey(orders, "order_id") /\ UniqueKey(customers, "customer_id") =>
                SumTotalOrders(state_summary) = Len(Matched(orders))
    /\ Loaded(State) /\ errors = 0 /\ UniqueKey(orders, "order_id")
          /\ UniqueKey(customers, "customer_id") =>
          SumTotalOrders(db[State].rows)
              = Cardinality(MasterOrders) - Len(SelectSeq(orders, Unmatched))

\* Two orders in the master table, one of them of no known customer with
\* state and city null there; the state summary counts one order.
C25_Witness ==
    /\ Loaded(State)
    /\ errors = 0
    /\ Cardinality(MasterOrders) = 2
    /\ SumTotalOrders(db[State].rows) = 1
    /\ \E k \in 1..Len(merged_df) :
          /\ Unmatched(merged_df[k])
          /\ db[Master].rows[k].customer_state = None
    /\ Len(sales_summary) = 1
    /\ Len(delivery_summary) = 1 /\ delivery_summary[1].total_orders = 1

(***************************************************************************)
(* The connections.                                                        *)
(***************************************************************************)
\* C26: when the run has returned or raised, no connection it opened is
\* still open: the connection of run_pipeline, or that of the Prefect task
\* the run ended in, has been closed, after a failure as after a success.
C26_ConnectionsClosed == pc \in {"done", "failed"} => conn \in {"none", "closed"}

(***************************************************************************)
(* The deployment.                                                         *)
(***************************************************************************)
\* The steps of main in their order, up to the n-th.
FirstSteps(n) == SubSeq(DeploySteps, 1, n)

\* C27: main runs its steps in the order MySQL connection test, package
\* install, database setup, data-file check, pipeline run, Prefect setup,
\* none skipped or repeated.  When one of the first five fails the process
\* exits with status 1 and that step is the last one run; with a data file
\* missing the pipeline is not run and no table is touched.  A pipeline run
\* that exceeds the timeout, like one that raises, is a failed fifth step.
\* Whatever the Prefect setup comes to, the process ends with status 0 once
\* the first five steps went well.
C27_DeployOrder ==
    /\ \E n \in 0..Len(DeploySteps) : deploy.ran = FirstSteps(n)
    /\ deploy.exit \in {-1, 0, 1}
    /\ deploy.exit # -1 <=> deploy.at = "exit"
    /\ deploy.exit = 1 <=> deploy.failed # ""
    /\ deploy.exit = 1 =>
          /\ deploy.ran # <<>>
          /\ deploy.ran[Len(deploy.ran)] = deploy.failed
          /\ deploy.failed \in Range(FirstSteps(5))
          /\ deploy.prefect = ""
    /\ deploy.exit = 0 =>
          /\ deploy.ran = DeploySteps
          /\ pc = "done"
          /\ ~deploy.missing
          /\ deploy.prefect \in {"created", "warning", "skipped"}
    /\ deploy.prefect # "" => deploy.exit = 0
    /\ deploy.missing =>
          /\ pc = "idle"
          /\ db = EmptyDb
          /\ \A k \in 1..Len(deploy.ran) : deploy.ran[k] # "pipeline"
          /\ deploy.at = "exit" =>
                deploy.exit = 1 /\ deploy.failed \in Range(FirstSteps(4))
          /\ Len(deploy.ran) = 4 => deploy.failed = "files"
    /\ pc # "idle" => deploy.ran = FirstSteps(5) \/ deploy.ran = DeploySteps
    /\ pc \in {"failed", "killed"} /\ deploy.at = "exit" =>
          deploy.exit = 1 /\ deploy.failed = "pipeline"
    /\ deploy.timed_out <=> pc = "killed"
    /\ deploy.timed_out => deploy.exit = 1 /\ deploy.failed = "pipeline"

\* The deployment ended with status 0 though the Prefect deployment was not
\* created, the pipeline having filled the five tables.
C27_Witness ==
    /\ deploy.exit = 0
    /\ deploy.prefect = "warning"
    /\ deploy.ran = DeploySteps
    /\ \A t \in Tables : db[t].rows # <<>>

====
